---- MODULE Spec2Model ----
(***************************************************************************)
(* Customer Points Tracker: the points ledger of the page component in     *)
(* src/unnamed/part_000.  The file holds two variants of the component:    *)
(* lines 1-710 (100 points = $5, search by phone or name) and lines        *)
(* 711-1258 (100 points = $10, search by phone only).  The variable        *)
(* `variant` selects the one a behaviour runs.                             *)
(*                                                                         *)
(* The external store (supabase) is the pair customersTbl / transactionsTbl.*)
(* A store call either reaches the store and takes effect, or fails and    *)
(* returns an error object without effect (StoreUnavailable).  The         *)
(* specification of the cached balance adds the third outcome of a call    *)
(* over a network: the store takes the write, and its answer is lost.      *)
(*                                                                         *)
(* Text is a sequence of one-character strings, so that trimming, the      *)
(* phone test /^\d{7,}$/ and case folding are computed, not assumed.       *)
(* Dollar inputs of the purchase field are counted in half dollars, so     *)
(* that 2.5 is an input and Math.floor has something to do.                *)
(***************************************************************************)
EXTENDS Integers, Sequences, FiniteSets, TLC

VARIABLES
    variant,          \* 5 or 10: which variant of the component runs
    sessions,         \* the browser sessions (mounted components)
    customersTbl,     \* store: table customers, row i has id i
    transactionsTbl,  \* store: table transactions, in insertion order
    currentCustomer,  \* per session: useState currentCustomer (row or NoCustomer)
    customers,        \* per session: useState customers (cached rows)
    showAddForm,      \* per session: useState showAddForm
    newCustomer,      \* per session: useState newCustomer
    nameResults,      \* per session: useState nameResults
    error,            \* per session: useState error
    loading,          \* per session: useState loading
    pc,               \* per session: the await a running handler is suspended at
    op,               \* per session: what the running handler's closure holds
    transactions,     \* per session: useState transactions (the loaded history)
    showHistory,      \* per session: useState showHistory
    historyPage,      \* per session: useState historyPage
    historyStartDate, \* per session: useState historyStartDate (a day, or NoDate)
    historyEndDate,   \* per session: useState historyEndDate (a day, or NoDate)
    loads,            \* per session: the loadTransactions queries in flight
    opDates,          \* per session: the date filter the running handler's closure holds
    createdAt,        \* store: column created_at of table transactions, in hours
    now,              \* the store's clock, in hours (UTC); day d starts at 24 * d
    zone,             \* the time zone of the browser
    arg,              \* the argument a display function of the component is given
    result            \* what the display function returned

vars == <<variant, sessions, customersTbl, transactionsTbl, currentCustomer,
          customers, showAddForm, newCustomer, nameResults, error, loading,
          pc, op, transactions, showHistory, historyPage, historyStartDate,
          historyEndDate, loads, opDates, createdAt, now, zone, arg, result>>

calcVars == <<arg, result>>

historyVars == <<transactions, showHistory, historyPage, historyStartDate,
                 historyEndDate, loads, opDates>>

appVars == <<variant, sessions, customersTbl, transactionsTbl, currentCustomer,
             customers, showAddForm, newCustomer, nameResults, error, loading,
             pc, op>>

clockVars == <<createdAt, now, zone>>

storeVars == <<customersTbl, transactionsTbl>>

----------------------------------------------------------------------------
(* Bounds of the model *)

\* the display functions are applied to balances up to this many points
MaxBalance == 450

\* at most this many rows in table transactions
MaxTx == 2

\* no balance is written above this many points
MaxPoints == 200

\* handleRedeem is called with the amounts 1..MaxRedeem, in dollars
MaxRedeem == 60

\* the history is browsed on a store that holds this many transactions of one
\* customer: one more than a page
StoredTx == 11

\* the history pages are cut from lists of up to this many transactions
MaxLen == 21

\* the history page numbers run up to this
MaxPage == 4

\* the lookup is run on stores of up to this many customers
MaxCustomers == 2

\* at most this many loadTransactions queries of a session are in flight
MaxLoads == 2

\* the history is filtered by the days 1..MaxDay, and the clock stops with
\* the last hour of day MaxDay
MaxDay == 3

----------------------------------------------------------------------------
(* Text *)

Digits == {"0", "1", "2", "3", "4", "5", "6", "7", "8", "9"}

EmptyText == <<>>

P1 == <<"5", "5", "5", "0", "0", "0", "1">>
P2 == <<"5", "5", "5", "0", "0", "0", "2">>
Ann == <<"a", "n", "n">>

\* String.prototype.trim: drop leading and trailing blanks
RECURSIVE TrimLeft(_)
TrimLeft(t) ==
    IF t # <<>> /\ Head(t) = " " THEN TrimLeft(Tail(t)) ELSE t

RECURSIVE TrimRight(_)
TrimRight(t) ==
    IF t # <<>> /\ t[Len(t)] = " " THEN TrimRight(SubSeq(t, 1, Len(t) - 1)) ELSE t

Trim(t) == TrimRight(TrimLeft(t))

\* /^\d{7,}$/.test(input)
IsPhone(t) == Len(t) >= 7 /\ \A i \in 1..Len(t) : t[i] \in Digits

----------------------------------------------------------------------------
(* Values *)

\* the two variants of the component: dollars per 100 points
Variants == {5, 10}

\* currentCustomer === null
NoCustomer == [id |-> 0]

\* a name column holding NULL (newCustomer.name || null)
NullName == <<"<", "n", "u", "l", "l", ">">>

\* the initial useState value of newCustomer
BlankNewCustomer == [phoneNumber |-> EmptyText, name |-> EmptyText]

\* no handler is suspended
NoOp == [kind |-> "none"]

\* no display function has been applied
NoResult == [kind |-> "none"]

\* error messages of the component
MsgNone == ""
MsgInvalidAmount == "Please enter a valid purchase amount"
MsgInvalidIncrement5 == "Redemption must be in $5 increments."
MsgInvalidIncrement10 == "Redemption must be in $10 increments."
MsgInsufficientPoints == "Not enough points for this redemption."
MsgAddPointsFailed == "Failed to add points"
MsgRedeemFailed == "Failed to redeem points"
MsgSearchFailed == "Failed to search customer"
MsgPhoneRequired == "Phone number is required"
MsgDuplicatePhone == "This phone number already exists"
MsgAddCustomerFailed == "Failed to add customer"

\* what the user types into the search field: phone numbers, and a name
PhoneTerms == {P1, P2}
SearchTerms == PhoneTerms \cup {Ann}

\* more search terms: a phone number between blanks, six digits, a name in
\* capitals
PaddedP1 == <<" ">> \o P1 \o <<" ">>
SixDigits == <<"5", "5", "5", "0", "0", "0">>
AnnUpper == <<"A", "N", "N">>
LookupTerms == {P1, PaddedP1, SixDigits, Ann, AnnUpper}

\* what the user types into the add-customer form
PhoneInputs == {EmptyText, P1, P2}
NameInputs == {EmptyText, Ann}

\* what the user types into the purchase field, in half dollars:
\* -1, 0 (also the empty field: Number('') is 0), 0.5, 100, 100.5
PurchaseInputs == {-2, 0, 1, 200, 201}

\* the amounts handleRedeem is called with
RedeemInputs(v) == IF v = 5 THEN {-5, 0, 3, 5, 10} ELSE {-10, 0, 5, 10, 20}

\* a date field left empty: historyStartDate === ''
NoDate == 0

\* both date fields left empty
NoDates == [startDate |-> NoDate, endDate |-> NoDate]

\* the days a date field is set to
Days == 1..MaxDay

\* the first hour of day d (UTC), as the store reads the date 'YYYY-MM-DD'
DayStart(d) == 24 * d

\* the day an hour lies in: toISOString().slice(0, 10)
DayOf(hour) == hour \div 24

\* time zones of the browser: UTC, and a zone five hours behind UTC whose
\* clocks go forward by an hour at 02:00 local time of day 2 (07:00 UTC)
ZoneUTC == [offset |-> 0, dst |-> FALSE, dstStart |-> 0]
ZoneNewYork == [offset |-> -5, dst |-> TRUE, dstStart |-> DayStart(2) + 7]
Zones == {ZoneUTC, ZoneNewYork}

\* const [historyPageSize] = useState(10)
HistoryPageSize == 10

----------------------------------------------------------------------------
(* The store *)

IdsOf(tbl) == 1..Len(tbl)

\* select * from customers where phone_number = phone
RowsByPhone(tbl, phone) == {i \in IdsOf(tbl) : tbl[i].phone_number = phone}

\* update customers set total_points = points where id = id
UpdatePoints(tbl, id, points) ==
    [tbl EXCEPT ![id].total_points = points]

\* the store stamps an inserted transaction with its clock (created_at), and
\* the clock moves on, so that no two transactions carry the same stamp
StoreClock ==
    /\ createdAt' = IF Len(transactionsTbl') > Len(transactionsTbl)
                    THEN Append(createdAt, now) ELSE createdAt
    /\ now' = IF Len(transactionsTbl') > Len(transactionsTbl) THEN now + 1 ELSE now
    /\ UNCHANGED zone

----------------------------------------------------------------------------
(* Initial state: every session mounted, the store empty *)

InitApp ==
    /\ sessions = {1}
    /\ customersTbl = <<>>
    /\ transactionsTbl = <<>>
    /\ currentCustomer = [s \in sessions |-> NoCustomer]
    /\ customers = [s \in sessions |-> <<>>]
    /\ showAddForm = [s \in sessions |-> FALSE]
    /\ newCustomer = [s \in sessions |-> BlankNewCustomer]
    /\ nameResults = [s \in sessions |-> <<>>]
    /\ error = [s \in sessions |-> MsgNone]
    /\ loading = [s \in sessions |-> FALSE]
    /\ pc = [s \in sessions |-> "idle"]
    /\ op = [s \in sessions |-> NoOp]
    /\ transactions = [s \in sessions |-> <<>>]
    /\ showHistory = [s \in sessions |-> FALSE]
    /\ historyPage = [s \in sessions |-> 1]
    /\ historyStartDate = [s \in sessions |-> NoDate]
    /\ historyEndDate = [s \in sessions |-> NoDate]
    /\ loads = [s \in sessions |-> {}]
    /\ opDates = [s \in sessions |-> NoDates]
    /\ createdAt = <<>>
    /\ now = DayStart(1)

Init ==
    /\ variant \in Variants
    /\ InitApp
    /\ zone = ZoneUTC
    /\ arg = 0
    /\ result = NoResult

----------------------------------------------------------------------------
(* Search: handleSearch *)

\* lower-casing, as ILIKE compares
LowerChar(c) ==
    CASE c = "A" -> "a"
      [] c = "N" -> "n"
      [] OTHER -> c

Lower(t) == [i \in 1..Len(t) |-> LowerChar(t[i])]

\* a case slip: LIKE in place of ILIKE
LikeCaseSensitive(name, pattern) == name # NullName /\ name = pattern

\* name ILIKE pattern, for a pattern without the wildcards % and _
ILike(name, pattern) == name # NullName /\ Lower(name) = Lower(pattern)

\* select * from customers where name ilike pattern, as a sequence by id
RECURSIVE RowsByName(_, _)
RowsByName(tbl, pattern) ==
    IF tbl = <<>> THEN <<>>
    ELSE LET rest == RowsByName(SubSeq(tbl, 1, Len(tbl) - 1), pattern)
             last == tbl[Len(tbl)]
         IN  IF ILike(last.name, pattern) THEN Append(rest, last) ELSE rest

\* the row .maybeSingle() returns for a phone lookup, NoCustomer for none
RowByPhone(tbl, phone) ==
    IF RowsByPhone(tbl, phone) = {} THEN NoCustomer
    ELSE tbl[CHOOSE i \in RowsByPhone(tbl, phone) : TRUE]

\* the user types `text` into the search field and submits the form:
\* the handler runs up to its await
HandleSearchStart(s, text) ==
    /\ pc[s] = "idle"
    /\ ~loading[s]
    /\ loading' = [loading EXCEPT ![s] = TRUE]
    /\ nameResults' = [nameResults EXCEPT ![s] =
                          IF variant = 5 THEN <<>> ELSE nameResults[s]]
    /\ pc' = [pc EXCEPT ![s] = "search"]
    /\ op' = [op EXCEPT ![s] =
                 IF variant = 5
                 THEN [kind |-> "search", input |-> Trim(text),
                       isPhone |-> IsPhone(Trim(text))]
                 ELSE [kind |-> "search", input |-> text, isPhone |-> TRUE]]
    /\ UNCHANGED <<variant, sessions, calcVars, storeVars, currentCustomer, customers,
                   showAddForm, newCustomer, error>>

\* a setter slip: the form is not hidden when a row is found
SearchShowKeepsForm(s, data) ==
    IF data # NoCustomer
    THEN /\ currentCustomer' = [currentCustomer EXCEPT ![s] = data]
         /\ error' = [error EXCEPT ![s] = MsgNone]
         /\ UNCHANGED <<showAddForm, newCustomer>>
    ELSE /\ currentCustomer' = [currentCustomer EXCEPT ![s] = NoCustomer]
         /\ showAddForm' = [showAddForm EXCEPT ![s] = op[s].isPhone]
         /\ newCustomer' = [newCustomer EXCEPT ![s].phoneNumber =
                               IF op[s].isPhone THEN op[s].input ELSE @]
         /\ UNCHANGED error

\* what the handler does with the row found (data), or with no row
SearchShow(s, data) ==
    IF data # NoCustomer
    THEN /\ currentCustomer' = [currentCustomer EXCEPT ![s] = data]
         /\ showAddForm' = [showAddForm EXCEPT ![s] = FALSE]
         /\ error' = [error EXCEPT ![s] = MsgNone]
         /\ UNCHANGED newCustomer
    ELSE /\ currentCustomer' = [currentCustomer EXCEPT ![s] = NoCustomer]
         /\ showAddForm' = [showAddForm EXCEPT ![s] = op[s].isPhone]
         /\ newCustomer' = [newCustomer EXCEPT ![s].phoneNumber =
                               IF op[s].isPhone THEN op[s].input ELSE @]
         /\ UNCHANGED error

\* the store answers the query of handleSearch (ok), or fails
HandleSearchDone(s, ok) ==
    /\ pc[s] = "search"
    /\ pc' = [pc EXCEPT ![s] = "idle"]
    /\ op' = [op EXCEPT ![s] = NoOp]
    /\ loading' = [loading EXCEPT ![s] = FALSE]
    /\ IF ~ok
       THEN /\ error' = [error EXCEPT ![s] = MsgSearchFailed]
            /\ UNCHANGED <<currentCustomer, showAddForm, newCustomer, nameResults>>
       ELSE IF op[s].isPhone
       THEN /\ SearchShow(s, RowByPhone(customersTbl, op[s].input))
            /\ UNCHANGED nameResults
       ELSE LET res == RowsByName(customersTbl, op[s].input)
            IN  IF Len(res) > 1
                THEN /\ nameResults' = [nameResults EXCEPT ![s] = res]
                     /\ currentCustomer' = [currentCustomer EXCEPT ![s] = NoCustomer]
                     /\ showAddForm' = [showAddForm EXCEPT ![s] = FALSE]
                     /\ error' = [error EXCEPT ![s] = MsgNone]
                     /\ UNCHANGED newCustomer
                ELSE /\ SearchShow(s, IF Len(res) = 1 THEN res[1] ELSE NoCustomer)
                     /\ UNCHANGED nameResults
    /\ UNCHANGED <<variant, sessions, calcVars, storeVars, customers>>

\* the Reset button
Reset(s) ==
    /\ ~loading[s]
    /\ currentCustomer' = [currentCustomer EXCEPT ![s] = NoCustomer]
    /\ showAddForm' = [showAddForm EXCEPT ![s] = FALSE]
    /\ error' = [error EXCEPT ![s] = MsgNone]
    /\ UNCHANGED <<variant, sessions, calcVars, storeVars, customers, newCustomer,
                   nameResults, loading, pc, op>>

\* the View button of row i of the name results
ViewNameResult(s, i) ==
    /\ Len(nameResults[s]) > 1
    /\ i \in 1..Len(nameResults[s])
    /\ currentCustomer' = [currentCustomer EXCEPT ![s] = nameResults[s][i]]
    /\ nameResults' = [nameResults EXCEPT ![s] = <<>>]
    /\ UNCHANGED <<variant, sessions, calcVars, storeVars, customers, showAddForm,
                   newCustomer, error, loading, pc, op>>

----------------------------------------------------------------------------
(* Add customer: the add-customer form and handleAddCustomer *)

\* the user edits the phone and name fields of the add-customer form
EditNewCustomer(s, phone, name) ==
    /\ showAddForm[s]
    /\ ~loading[s]
    /\ newCustomer' = [newCustomer EXCEPT ![s] =
                          [phoneNumber |-> phone, name |-> name]]
    /\ UNCHANGED <<variant, sessions, calcVars, storeVars, currentCustomer, customers,
                   showAddForm, nameResults,
                   error, loading, pc, op>>

\* the row handleAddCustomer asks the store to insert
NewCustomerRow(tbl, form) ==
    [id |-> Len(tbl) + 1,
     phone_number |-> form.phoneNumber,
     name |-> IF form.name = EmptyText THEN NullName ELSE form.name,
     total_points |-> 0]

\* a constraint slip: the column without UNIQUE
ViolatesUniquePhoneNever(tbl, row) == FALSE

\* phone_number TEXT UNIQUE: the insert violates the constraint (code 23505)
ViolatesUniquePhone(tbl, row) == RowsByPhone(tbl, row.phone_number) # {}

\* the form is submitted: the handler runs up to its await
HandleAddCustomerStart(s) ==
    /\ pc[s] = "idle"
    /\ showAddForm[s]
    /\ ~loading[s]
    /\ IF Trim(newCustomer[s].phoneNumber) = EmptyText
       THEN /\ error' = [error EXCEPT ![s] = MsgPhoneRequired]
            /\ UNCHANGED <<loading, pc, op>>
       ELSE /\ loading' = [loading EXCEPT ![s] = TRUE]
            /\ pc' = [pc EXCEPT ![s] = "addCustomer"]
            /\ op' = [op EXCEPT ![s] =
                         [kind |-> "addCustomer", form |-> newCustomer[s],
                          customers |-> customers[s]]]
            /\ UNCHANGED error
    /\ UNCHANGED <<variant, sessions, calcVars, storeVars, currentCustomer, customers,
                   showAddForm, newCustomer, nameResults>>

\* the store answers the insert of handleAddCustomer (ok), or fails
HandleAddCustomerDone(s, ok) ==
    /\ pc[s] = "addCustomer"
    /\ pc' = [pc EXCEPT ![s] = "idle"]
    /\ op' = [op EXCEPT ![s] = NoOp]
    /\ loading' = [loading EXCEPT ![s] = FALSE]
    /\ LET data == NewCustomerRow(customersTbl, op[s].form)
       IN  IF ~ok
           THEN /\ error' = [error EXCEPT ![s] = MsgAddCustomerFailed]
                /\ UNCHANGED <<customersTbl, customers, currentCustomer,
                               showAddForm, newCustomer>>
           ELSE IF ViolatesUniquePhone(customersTbl, data)
           THEN /\ error' = [error EXCEPT ![s] = MsgDuplicatePhone]
                /\ UNCHANGED <<customersTbl, customers, currentCustomer,
                               showAddForm, newCustomer>>
           ELSE /\ customersTbl' = Append(customersTbl, data)
                /\ customers' = [customers EXCEPT ![s] =
                                    Append(op[s].customers, data)]
                /\ currentCustomer' = [currentCustomer EXCEPT ![s] = data]
                /\ showAddForm' = [showAddForm EXCEPT ![s] = FALSE]
                /\ newCustomer' = [newCustomer EXCEPT ![s] = BlankNewCustomer]
                /\ error' = [error EXCEPT ![s] = MsgNone]
    /\ UNCHANGED <<variant, sessions, calcVars, transactionsTbl, nameResults>>

----------------------------------------------------------------------------
(* Accrual: handleAddPoints *)

\* a rounding slip: Math.round in place of Math.floor
PurchaseDollarsRounded(halves) == (halves + 1) \div 2

\* Math.floor(Number(purchaseAmount)), the field counted in half dollars
PurchaseDollars(halves) == halves \div 2

\* a boundary slip: amount < 0 in place of amount <= 0
AmountRejectedNegativeOnly(amount) == amount < 0

\* the handler's test of the amount: amount <= 0 is rejected
AmountRejected(amount) == amount <= 0

\* newPoints of handleAddPoints
AccruedPoints(balance, amount) == balance + amount

\* the row handleAddPoints inserts into transactions
AddTransaction(id, amount) ==
    [customer_id |-> id, type |-> "add", amount |-> amount,
     points_changed |-> amount]

\* customers.map(c => c.id === id ? data : c)
ReplaceCustomer(list, data) ==
    [i \in 1..Len(list) |-> IF list[i].id = data.id THEN data ELSE list[i]]

\* the user types `halves` into the purchase field and submits the form:
\* the handler validates and runs up to its first await
HandleAddPointsStart(s, halves) ==
    /\ pc[s] = "idle"
    /\ ~loading[s]
    /\ currentCustomer[s] # NoCustomer
    /\ LET amount == PurchaseDollars(halves)
       IN  IF AmountRejected(amount)
           THEN /\ error' = [error EXCEPT ![s] = MsgInvalidAmount]
                /\ UNCHANGED <<loading, pc, op>>
           ELSE /\ AccruedPoints(currentCustomer[s].total_points, amount) <= MaxPoints
                /\ Len(transactionsTbl) < MaxTx
                /\ loading' = [loading EXCEPT ![s] = TRUE]
                /\ pc' = [pc EXCEPT ![s] = "addPointsUpdate"]
                /\ op' = [op EXCEPT ![s] =
                       [kind |-> "addPoints",
                        customer |-> currentCustomer[s],
                        customers |-> customers[s],
                        input |-> halves,
                        amount |-> amount,
                        data |-> NoCustomer,
                        newPoints |-> AccruedPoints(currentCustomer[s].total_points,
                                                    amount)]]
                /\ UNCHANGED error
    /\ UNCHANGED <<variant, sessions, calcVars, storeVars, currentCustomer, customers,
                   showAddForm, newCustomer, nameResults>>

\* an error slip: the answer's error is not thrown, and the handler goes on
\* to its insert with the row it held
BalanceUpdateDoneUnchecked(s, ok, next, failed) ==
    /\ customersTbl' = IF ok THEN UpdatePoints(customersTbl, op[s].customer.id,
                                               op[s].newPoints)
                             ELSE customersTbl
    /\ pc' = [pc EXCEPT ![s] = next]
    /\ op' = [op EXCEPT ![s].data = customersTbl'[op[s].customer.id]]
    /\ UNCHANGED <<error, loading>>

\* the store answers the balance update of a handler (ok), or fails;
\* `next` is the await the handler goes on to, `failed` its catch message
BalanceUpdateDone(s, ok, next, failed) ==
    IF ok
    THEN /\ customersTbl' = UpdatePoints(customersTbl, op[s].customer.id,
                                         op[s].newPoints)
         /\ pc' = [pc EXCEPT ![s] = next]
         /\ op' = [op EXCEPT ![s].data = customersTbl'[op[s].customer.id]]
         /\ UNCHANGED <<error, loading>>
    ELSE /\ error' = [error EXCEPT ![s] = failed]
         /\ loading' = [loading EXCEPT ![s] = FALSE]
         /\ pc' = [pc EXCEPT ![s] = "idle"]
         /\ op' = [op EXCEPT ![s] = NoOp]
         /\ UNCHANGED customersTbl

\* the store takes the balance update of a handler, but its answer does not
\* reach the browser: the client reports the failed request as error, and the
\* handler throws it
BalanceUpdateLost(s, failed) ==
    /\ customersTbl' = UpdatePoints(customersTbl, op[s].customer.id,
                                    op[s].newPoints)
    /\ error' = [error EXCEPT ![s] = failed]
    /\ loading' = [loading EXCEPT ![s] = FALSE]
    /\ pc' = [pc EXCEPT ![s] = "idle"]
    /\ op' = [op EXCEPT ![s] = NoOp]

HandleAddPointsUpdateLost(s) ==
    /\ pc[s] = "addPointsUpdate"
    /\ BalanceUpdateLost(s, MsgAddPointsFailed)
    /\ UNCHANGED <<variant, sessions, calcVars, transactionsTbl, currentCustomer,
                   customers, showAddForm, newCustomer, nameResults>>

HandleAddPointsUpdateDone(s, ok) ==
    /\ pc[s] = "addPointsUpdate"
    /\ BalanceUpdateDone(s, ok, "addPointsInsert", MsgAddPointsFailed)
    /\ UNCHANGED <<variant, sessions, calcVars, transactionsTbl, currentCustomer,
                   customers, showAddForm, newCustomer, nameResults>>

\* a write slip: the table replaced by the new row
InsertTransactionOverwrite(tbl, row, ok) == IF ok THEN <<row>> ELSE tbl

\* insert into transactions: the row is appended when the store is reached
InsertTransaction(tbl, row, ok) == IF ok THEN Append(tbl, row) ELSE tbl

\* the store answers the transaction insert (ok), or fails; the handler does
\* not read the answer and runs to its end
HandleAddPointsInsertDone(s, ok) ==
    /\ pc[s] = "addPointsInsert"
    /\ transactionsTbl' = InsertTransaction(transactionsTbl,
                              AddTransaction(op[s].customer.id, op[s].amount), ok)
    /\ customers' = [customers EXCEPT ![s] =
                        ReplaceCustomer(op[s].customers, op[s].data)]
    /\ currentCustomer' = [currentCustomer EXCEPT ![s] = op[s].data]
    /\ error' = [error EXCEPT ![s] = MsgNone]
    /\ loading' = [loading EXCEPT ![s] = FALSE]
    /\ pc' = [pc EXCEPT ![s] = "idle"]
    /\ op' = [op EXCEPT ![s] = NoOp]
    /\ UNCHANGED <<variant, sessions, calcVars, customersTbl, showAddForm, newCustomer,
                   nameResults>>

----------------------------------------------------------------------------
(* Redemption: handleRedeem *)

\* the JavaScript remainder a % b for b > 0: it has the sign of a
JsRem(a, b) == IF a >= 0 THEN a % b ELSE -((-a) % b)

\* a variant slip: the $10 variant keeps the $5 variant's test
IncrementRejectedFive(v, redeemAmount) == JsRem(redeemAmount, 5) # 0

\* the handler's first test: redeemAmount % 5 !== 0, redeemAmount % 10 !== 0
IncrementRejected(v, redeemAmount) == JsRem(redeemAmount, v) # 0

\* a variant slip: the $10 variant keeps the $5 variant's cost
PointsNeededFive(v, redeemAmount) == (redeemAmount \div 5) * 100

\* pointsNeeded: (redeemAmount / 5) * 100 in the $5 variant, redeemAmount * 10
\* in the $10 variant; the division is exact once the first test has passed
PointsNeeded(v, redeemAmount) ==
    IF v = 5 THEN (redeemAmount \div 5) * 100 ELSE redeemAmount * 10

\* a unit slip: the balance in points compared with the cost in hundreds
PointsInsufficientHundreds(balance, pointsNeeded) ==
    balance < pointsNeeded \div 100

\* a comparison slip: the operands swapped
PointsInsufficientSwapped(balance, pointsNeeded) == pointsNeeded < balance

\* the handler's second test: currentCustomer.total_points < pointsNeeded
PointsInsufficient(balance, pointsNeeded) == balance < pointsNeeded

\* newPoints of handleRedeem
RedeemedPoints(balance, pointsNeeded) == balance - pointsNeeded

\* the message of the first test
MsgInvalidIncrement(v) ==
    IF v = 5 THEN MsgInvalidIncrement5 ELSE MsgInvalidIncrement10

\* the row handleRedeem inserts into transactions
RedeemTransaction(id, redeemAmount, pointsNeeded) ==
    [customer_id |-> id, type |-> "redeem", amount |-> redeemAmount,
     points_changed |-> -pointsNeeded]

\* handleRedeem(redeemAmount) is called: the handler validates and runs up to
\* its first await
HandleRedeemStart(s, redeemAmount) ==
    /\ pc[s] = "idle"
    /\ ~loading[s]
    /\ currentCustomer[s] # NoCustomer
    /\ IF IncrementRejected(variant, redeemAmount)
       THEN /\ error' = [error EXCEPT ![s] = MsgInvalidIncrement(variant)]
            /\ UNCHANGED <<loading, pc, op>>
       ELSE IF PointsInsufficient(currentCustomer[s].total_points,
                                  PointsNeeded(variant, redeemAmount))
       THEN /\ error' = [error EXCEPT ![s] = MsgInsufficientPoints]
            /\ UNCHANGED <<loading, pc, op>>
       ELSE /\ RedeemedPoints(currentCustomer[s].total_points,
                              PointsNeeded(variant, redeemAmount)) <= MaxPoints
            /\ Len(transactionsTbl) < MaxTx
            /\ loading' = [loading EXCEPT ![s] = TRUE]
            /\ pc' = [pc EXCEPT ![s] = "redeemUpdate"]
            /\ op' = [op EXCEPT ![s] =
                   [kind |-> "redeem",
                    customer |-> currentCustomer[s],
                    customers |-> customers[s],
                    input |-> redeemAmount,
                    amount |-> redeemAmount,
                    data |-> NoCustomer,
                    newPoints |-> RedeemedPoints(currentCustomer[s].total_points,
                                      PointsNeeded(variant, redeemAmount))]]
            /\ UNCHANGED error
    /\ UNCHANGED <<variant, sessions, calcVars, storeVars, currentCustomer, customers,
                   showAddForm, newCustomer, nameResults>>

HandleRedeemUpdateLost(s) ==
    /\ pc[s] = "redeemUpdate"
    /\ BalanceUpdateLost(s, MsgRedeemFailed)
    /\ UNCHANGED <<variant, sessions, calcVars, transactionsTbl, currentCustomer,
                   customers, showAddForm, newCustomer, nameResults>>

HandleRedeemUpdateDone(s, ok) ==
    /\ pc[s] = "redeemUpdate"
    /\ BalanceUpdateDone(s, ok, "redeemInsert", MsgRedeemFailed)
    /\ UNCHANGED <<variant, sessions, calcVars, transactionsTbl, currentCustomer,
                   customers, showAddForm, newCustomer, nameResults>>

\* the store answers the transaction insert (ok), or fails; the handler does
\* not read the answer and runs to its end
HandleRedeemInsertDone(s, ok) ==
    /\ pc[s] = "redeemInsert"
    /\ transactionsTbl' = InsertTransaction(transactionsTbl,
                              RedeemTransaction(op[s].customer.id, op[s].amount,
                                  PointsNeeded(variant, op[s].amount)), ok)
    /\ customers' = [customers EXCEPT ![s] =
                        ReplaceCustomer(op[s].customers, op[s].data)]
    /\ currentCustomer' = [currentCustomer EXCEPT ![s] = op[s].data]
    /\ error' = [error EXCEPT ![s] = MsgNone]
    /\ loading' = [loading EXCEPT ![s] = FALSE]
    /\ pc' = [pc EXCEPT ![s] = "idle"]
    /\ op' = [op EXCEPT ![s] = NoOp]
    /\ UNCHANGED <<variant, sessions, calcVars, customersTbl, showAddForm, newCustomer,
                   nameResults>>

----------------------------------------------------------------------------
(* The redemption buttons: getRedemptionOptions *)

\* a boundary slip: i < maxRedemption in place of i <= maxRedemption
RECURSIVE OptionsLoopExclusive(_, _, _, _)
OptionsLoopExclusive(i, step, maxRedemption, options) ==
    IF i < maxRedemption
    THEN OptionsLoopExclusive(i + step, step, maxRedemption, Append(options, i))
    ELSE options

\* the for loop: for (let i = step; i <= maxRedemption; i += step) push(i)
RECURSIVE OptionsLoop(_, _, _, _)
OptionsLoop(i, step, maxRedemption, options) ==
    IF i <= maxRedemption
    THEN OptionsLoop(i + step, step, maxRedemption, Append(options, i))
    ELSE options

\* getRedemptionOptions(points) of variant v (v is 5 or 10);
\* maxRedemption = Math.floor(points / 100) * v
GetRedemptionOptions(v, points) ==
    OptionsLoop(v, v, (points \div 100) * v, <<>>)

\* the component renders the redemption buttons of a balance
RenderRedemptionOptions ==
    /\ result = NoResult
    /\ result' = [kind |-> "options", value |-> GetRedemptionOptions(variant, arg)]
    /\ UNCHANGED <<variant, sessions, storeVars, currentCustomer, customers,
                   showAddForm, newCustomer, nameResults, error, loading, pc,
                   op, historyVars, clockVars, arg>>

\* the display functions applied to every balance up to MaxBalance
InitOptions ==
    /\ variant \in Variants
    /\ InitApp
    /\ zone = ZoneUTC
    /\ arg \in 0..MaxBalance
    /\ result = NoResult

NextOptions == RenderRedemptionOptions

SpecOptions == InitOptions /\ [][NextOptions]_vars

----------------------------------------------------------------------------
(* The redeemable dollars: formatPointsToDollars *)

\* the decimal digit d as a character
DigitChar(d) ==
    CASE d = 0 -> "0" [] d = 1 -> "1" [] d = 2 -> "2" [] d = 3 -> "3"
      [] d = 4 -> "4" [] d = 5 -> "5" [] d = 6 -> "6" [] d = 7 -> "7"
      [] d = 8 -> "8" [] d = 9 -> "9"

\* the decimal digits of a natural number, without leading zeros
RECURSIVE NatText(_)
NatText(n) ==
    IF n < 10 THEN <<DigitChar(n)>>
    ELSE Append(NatText(n \div 10), DigitChar(n % 10))

\* Number.prototype.toFixed(2) of a number given in thousandths: the magnitude
\* is rounded to the nearest hundredth (a half upwards) and written with two
\* decimals, after the sign of a negative number
ToFixed2(milli) ==
    LET mag == IF milli < 0 THEN -milli ELSE milli
        cents == (mag + 5) \div 10
        text == NatText(cents \div 100)
                    \o <<".", DigitChar((cents \div 10) % 10), DigitChar(cents % 10)>>
    IN  IF milli < 0 THEN <<"-">> \o text ELSE text

\* a variant slip: the $10 variant keeps the $5 variant's formula
DollarsMilliFive(v, points) == (points * 10) * 5

\* the number formatPointsToDollars formats, in thousandths of a dollar:
\* (points / 100) * 5 in the $5 variant, points / 10 in the $10 variant
DollarsMilli(v, points) ==
    IF v = 5 THEN (points * 10) * 5 ELSE points * 100

\* formatPointsToDollars(points) of variant v
FormatPointsToDollars(v, points) == ToFixed2(DollarsMilli(v, points))

\* the component renders the redeemable dollars of a balance
RenderDollars ==
    /\ result = NoResult
    /\ result' = [kind |-> "dollars", value |-> FormatPointsToDollars(variant, arg)]
    /\ UNCHANGED <<variant, sessions, storeVars, currentCustomer, customers,
                   showAddForm, newCustomer, nameResults, error, loading, pc,
                   op, historyVars, clockVars, arg>>

NextDollars == RenderDollars

SpecDollars == InitOptions /\ [][NextDollars]_vars

----------------------------------------------------------------------------
(* The redemption buttons and the tests of handleRedeem *)

\* what handleRedeem(redeemAmount) decides for a current customer of the
\* given balance before its first await: the message of the test that
\* rejects the call, or that the call goes on to the store
RedeemValidation(v, balance, redeemAmount) ==
    IF IncrementRejected(v, redeemAmount)
    THEN [accepted |-> FALSE, error |-> MsgInvalidIncrement(v)]
    ELSE IF PointsInsufficient(balance, PointsNeeded(v, redeemAmount))
    THEN [accepted |-> FALSE, error |-> MsgInsufficientPoints]
    ELSE [accepted |-> TRUE, error |-> MsgNone]

\* the component renders the redemption buttons of a customer's balance, and
\* handleRedeem is called with an amount for that customer
RenderAndRedeem ==
    /\ result = NoResult
    /\ result' = [kind |-> "redeem",
                  options |-> GetRedemptionOptions(variant, arg.balance),
                  outcome |-> RedeemValidation(variant, arg.balance, arg.amount)]
    /\ UNCHANGED <<variant, sessions, storeVars, currentCustomer, customers,
                   showAddForm, newCustomer, nameResults, error, loading, pc,
                   op, historyVars, clockVars, arg>>

\* every balance up to MaxBalance with every amount up to MaxRedeem
InitRedeemable ==
    /\ variant \in Variants
    /\ InitApp
    /\ zone = ZoneUTC
    /\ arg \in [balance : 0..MaxBalance, amount : 1..MaxRedeem]
    /\ result = NoResult

NextRedeemable == RenderAndRedeem

SpecRedeemable == InitRedeemable /\ [][NextRedeemable]_vars

----------------------------------------------------------------------------
(* The history pages: paginatedTransactions and totalPages *)

\* the page sizes the slice is computed for; the component's is HistoryPageSize
PageSizes == {1, 2, 3, HistoryPageSize}

\* a list of n transactions, each standing for its place in the loaded list
ListOf(n) == [i \in 1..n |-> i]

Min(a, b) == IF a <= b THEN a ELSE b

Max(a, b) == IF a >= b THEN a ELSE b

\* Array.prototype.slice(start, end) for start, end >= 0: both are clamped to
\* the length, and the elements at the 0-based places start..end-1 are copied
JsSlice(list, start, end) ==
    LET from == Min(start, Len(list))
        to == Min(end, Len(list))
    IN  [k \in 1..Max(to - from, 0) |-> list[from + k]]

\* a base slip: the page counted from 0
PaginatedTransactionsZeroBased(list, page, size) ==
    JsSlice(list, page * size, (page + 1) * size)

\* transactions.slice((historyPage - 1) * historyPageSize,
\*                    historyPage * historyPageSize)
PaginatedTransactions(list, page, size) ==
    JsSlice(list, (page - 1) * size, page * size)

\* Math.ceil(a / b) for a >= 0, b > 0
CeilDiv(a, b) == (a \div b) + (IF a % b = 0 THEN 0 ELSE 1)

\* totalPages = Math.ceil(transactions.length / historyPageSize)
TotalPages(list, size) == CeilDiv(Len(list), size)

\* Page {historyPage} of {totalPages || 1}
DisplayedTotalPages(list, size) ==
    IF TotalPages(list, size) = 0 THEN 1 ELSE TotalPages(list, size)

\* the component renders a page of the history
RenderPage ==
    /\ result = NoResult
    /\ result' = [kind |-> "page",
                  slice |-> PaginatedTransactions(ListOf(arg.n), arg.page, arg.size),
                  totalPages |-> DisplayedTotalPages(ListOf(arg.n), arg.size)]
    /\ UNCHANGED <<variant, sessions, storeVars, currentCustomer, customers,
                   showAddForm, newCustomer, nameResults, error, loading, pc,
                   op, historyVars, clockVars, arg>>

\* the history page computed for every list length, page and page size
InitPaginate ==
    /\ variant \in Variants
    /\ InitApp
    /\ zone = ZoneUTC
    /\ arg \in [n : 0..MaxLen, page : 1..MaxPage, size : PageSizes]
    /\ result = NoResult

NextPaginate == RenderPage

SpecPaginate == InitPaginate /\ [][NextPaginate]_vars

----------------------------------------------------------------------------
(* The history totals: totalSpent and totalRedeemedDollars ($5 variant) *)

\* the transactions a loaded list is made of: purchases of $100 and $1,
\* redemptions of $5 and $10, and the redemption of -$5 that handleRedeem
\* takes
LoadedRows ==
    <<[type |-> "add", amount |-> 100, points_changed |-> 100],
      [type |-> "redeem", amount |-> 5, points_changed |-> -100],
      [type |-> "add", amount |-> 1, points_changed |-> 1],
      [type |-> "redeem", amount |-> 10, points_changed |-> -200],
      [type |-> "redeem", amount |-> -5, points_changed |-> 100]>>

\* a loaded list of n transactions: the rows above in turn, from row first on
LoadedList(n, first) ==
    [i \in 1..n |-> LoadedRows[((first + i - 2) % Len(LoadedRows)) + 1]]

\* filter(tx => tx.type === 'add').reduce((sum, tx) => sum + (tx.amount || 0), 0)
RECURSIVE SumAmounts(_)
SumAmounts(list) ==
    IF list = <<>> THEN 0
    ELSE LET tx == list[Len(list)]
         IN  SumAmounts(SubSeq(list, 1, Len(list) - 1))
                 + (IF tx.type = "add" THEN tx.amount ELSE 0)

\* filter(tx => tx.type === 'redeem')
\*     .reduce((sum, tx) => sum + (tx.points_changed || 0), 0)
RECURSIVE SumRedeemedPoints(_)
SumRedeemedPoints(list) ==
    IF list = <<>> THEN 0
    ELSE LET tx == list[Len(list)]
         IN  SumRedeemedPoints(SubSeq(list, 1, Len(list) - 1))
                 + (IF tx.type = "redeem" THEN tx.points_changed ELSE 0)

\* a list slip: the total of the page shown in place of the whole list
TotalSpentOfPage(list) ==
    SumAmounts(JsSlice(list, 0, HistoryPageSize))

\* totalSpent, of the list transactions
TotalSpent(list) == SumAmounts(list)

\* totalRedeemedPoints, of the list transactions
TotalRedeemedPoints(list) == SumRedeemedPoints(list)

\* totalRedeemedDollars = ((-totalRedeemedPoints / 100) * 5).toFixed(2)
TotalRedeemedDollars(list) ==
    ToFixed2(((-TotalRedeemedPoints(list)) * 10) * 5)

\* the component renders the totals of a loaded list (none for an empty list)
RenderTotals ==
    /\ result = NoResult
    /\ result' = LET list == LoadedList(arg.n, arg.first)
                 IN  IF Len(list) > 0
                     THEN [kind |-> "totals",
                           totalSpent |-> TotalSpent(list),
                           totalRedeemedDollars |-> TotalRedeemedDollars(list)]
                     ELSE [kind |-> "nothing"]
    /\ UNCHANGED <<variant, sessions, storeVars, currentCustomer, customers,
                   showAddForm, newCustomer, nameResults, error, loading, pc,
                   op, historyVars, clockVars, arg>>

\* the totals computed for loaded lists of every length; they are part of
\* the $5 variant only
InitTotals ==
    /\ variant = 5
    /\ InitApp
    /\ zone = ZoneUTC
    /\ arg \in [n : 0..MaxLen, first : 1..Len(LoadedRows)]
    /\ result = NoResult

NextTotals == RenderTotals

SpecTotals == InitTotals /\ [][NextTotals]_vars

----------------------------------------------------------------------------
(* The history: loadTransactions, the effects that call it, the modal *)

\* the UTC offset of zone z at the hour utc
Offset(z, utc) == z.offset + (IF z.dst /\ utc >= z.dstStart THEN 1 ELSE 0)

\* the hour (UTC) at which the clocks of zone z show the local hour wall
LocalToUtc(z, wall) ==
    IF z.dst /\ wall - (z.offset + 1) >= z.dstStart
    THEN wall - (z.offset + 1)
    ELSE wall - z.offset

\* the day the query's upper bound names: end = new Date(historyEndDate) is
\* midnight UTC of the end date; end.setDate(end.getDate() + 1) moves the
\* local clock of the browser a day on; toISOString().slice(0, 10) is the
\* day (UTC) of the result
EndBound(z, endDate) ==
    LET end == DayStart(endDate)
        wall == end + Offset(z, end)
    IN  DayOf(LocalToUtc(z, wall + 24))

\* the query loadTransactions(customerId) builds from the date fields
Request(z, customerId, startDate, endDate) ==
    [customer_id |-> customerId,
     startDate |-> startDate,
     endDate |-> endDate,
     lt |-> IF endDate # NoDate THEN EndBound(z, endDate) ELSE NoDate]

\* row k of table transactions with its column created_at
TransactionRow(k) ==
    [customer_id |-> transactionsTbl[k].customer_id,
     type |-> transactionsTbl[k].type,
     amount |-> transactionsTbl[k].amount,
     points_changed |-> transactionsTbl[k].points_changed,
     created_at |-> createdAt[k]]

\* the filters of the query: eq customer_id, gte created_at, lt created_at
Selected(row, req) ==
    /\ row.customer_id = req.customer_id
    /\ (req.startDate # NoDate => row.created_at >= DayStart(req.startDate))
    /\ (req.lt # NoDate => row.created_at < DayStart(req.lt))

\* order('created_at', { ascending: false }): row put before the first row
\* of the list that is not younger
RECURSIVE InsertDescending(_, _)
InsertDescending(list, row) ==
    IF list = <<>> THEN <<row>>
    ELSE IF row.created_at >= Head(list).created_at THEN <<row>> \o list
    ELSE <<Head(list)>> \o InsertDescending(Tail(list), row)

\* the rows 1..k of table transactions the query selects, youngest first
RECURSIVE SelectTransactions(_, _)
SelectTransactions(k, req) ==
    IF k = 0 THEN <<>>
    ELSE IF Selected(TransactionRow(k), req)
    THEN InsertDescending(SelectTransactions(k - 1, req), TransactionRow(k))
    ELSE SelectTransactions(k - 1, req)

\* the answer of the store to the query
QueryTransactions(req) == SelectTransactions(Len(transactionsTbl), req)

\* the history modal is on the screen, over the page
HistoryVisible(s) == showHistory[s] /\ currentCustomer[s] # NoCustomer

\* the spinner overlay of the $5 variant is on the screen (globalLoading)
GlobalLoading(s) ==
    variant = 5 /\ pc[s] \in {"addCustomer", "addPointsUpdate", "addPointsInsert",
                               "redeemUpdate", "redeemInsert"}

\* the step of a handler that leaves the history state alone
HistoryUntouched == UNCHANGED historyVars

\* the step of a handler that runs up to an await: its closure holds the date
\* fields of the render it was created in
ClosureDates(s) ==
    /\ opDates' = [opDates EXCEPT ![s] =
                      IF pc'[s] # "idle"
                      THEN [startDate |-> historyStartDate[s],
                            endDate |-> historyEndDate[s]]
                      ELSE @]
    /\ UNCHANGED <<transactions, showHistory, historyPage, historyStartDate,
                   historyEndDate, loads>>

\* the step of a handler that calls setCurrentCustomer: when the current
\* customer changes, the effects run: with a customer they call
\* loadTransactions (the date fields of the new render), without one they
\* empty the list; both set the history page to 1.  reload: the handler also
\* calls loadTransactions itself, with the date fields of its closure.
CustomerEffects(s, reload) ==
    LET cur == currentCustomer'[s]
        changed == cur # NoCustomer \/ currentCustomer[s] # NoCustomer
        byEffect == IF cur # NoCustomer
                    THEN {Request(zone, cur.id, historyStartDate[s], historyEndDate[s])}
                    ELSE {}
        byHandler == IF reload
                     THEN {Request(zone, op[s].customer.id, opDates[s].startDate,
                                   opDates[s].endDate)}
                     ELSE {}
    IN  /\ Cardinality(loads[s] \cup byEffect \cup byHandler) <= MaxLoads
        /\ loads' = [loads EXCEPT ![s] = @ \cup byEffect \cup byHandler]
        /\ transactions' = [transactions EXCEPT ![s] =
                               IF changed /\ cur = NoCustomer THEN <<>> ELSE @]
        /\ historyPage' = [historyPage EXCEPT ![s] = IF changed THEN 1 ELSE @]
        /\ opDates' = [opDates EXCEPT ![s] = NoDates]
        /\ UNCHANGED <<showHistory, historyStartDate, historyEndDate>>

\* the effect on [historyStartDate, historyEndDate, currentCustomer,
\* showHistory] after one of the date fields or showHistory changed
HistoryEffect(s, show, startDate, endDate) ==
    LET asked == IF currentCustomer[s] # NoCustomer /\ show
                 THEN {Request(zone, currentCustomer[s].id, startDate, endDate)}
                 ELSE {}
    IN  /\ Cardinality(loads[s] \cup asked) <= MaxLoads
        /\ loads' = [loads EXCEPT ![s] = @ \cup asked]
        /\ historyPage' = [historyPage EXCEPT ![s] = 1]

\* the Show History button
OpenHistory(s) ==
    /\ currentCustomer[s] # NoCustomer
    /\ ~showHistory[s]
    /\ ~GlobalLoading(s)
    /\ showHistory' = [showHistory EXCEPT ![s] = TRUE]
    /\ HistoryEffect(s, TRUE, historyStartDate[s], historyEndDate[s])
    /\ UNCHANGED <<appVars, clockVars, calcVars, transactions, historyStartDate,
                   historyEndDate, opDates>>

\* the Close button of the modal, or a mouse press outside the modal
CloseHistory(s) ==
    /\ HistoryVisible(s)
    /\ showHistory' = [showHistory EXCEPT ![s] = FALSE]
    /\ HistoryEffect(s, FALSE, historyStartDate[s], historyEndDate[s])
    /\ UNCHANGED <<appVars, clockVars, calcVars, transactions, historyStartDate,
                   historyEndDate, opDates>>

\* the Start Date field of the modal is set to day d, or emptied
SetHistoryStartDate(s, d) ==
    /\ HistoryVisible(s)
    /\ d # historyStartDate[s]
    /\ historyStartDate' = [historyStartDate EXCEPT ![s] = d]
    /\ HistoryEffect(s, TRUE, d, historyEndDate[s])
    /\ UNCHANGED <<appVars, clockVars, calcVars, transactions, showHistory,
                   historyEndDate, opDates>>

\* the End Date field of the modal is set to day d, or emptied
SetHistoryEndDate(s, d) ==
    /\ HistoryVisible(s)
    /\ d # historyEndDate[s]
    /\ historyEndDate' = [historyEndDate EXCEPT ![s] = d]
    /\ HistoryEffect(s, TRUE, historyStartDate[s], d)
    /\ UNCHANGED <<appVars, clockVars, calcVars, transactions, showHistory,
                   historyStartDate, opDates>>

\* the store answers a query of loadTransactions (ok), or fails:
\* if (!error) setTransactions(data || [])
LoadTransactionsDone(s, req, ok) ==
    /\ req \in loads[s]
    /\ loads' = [loads EXCEPT ![s] = @ \ {req}]
    /\ transactions' = [transactions EXCEPT ![s] =
                           IF ok THEN QueryTransactions(req) ELSE @]
    /\ UNCHANGED <<appVars, clockVars, calcVars, showHistory, historyPage,
                   historyStartDate, historyEndDate, opDates>>

\* the Previous button of the modal
PreviousHistoryPage(s) ==
    /\ HistoryVisible(s)
    /\ historyPage[s] # 1
    /\ historyPage' = [historyPage EXCEPT ![s] = Max(1, @ - 1)]
    /\ UNCHANGED <<appVars, clockVars, calcVars, transactions, showHistory,
                   historyStartDate, historyEndDate, loads, opDates>>

\* the Next button of the modal
NextHistoryPage(s) ==
    LET totalPages == TotalPages(transactions[s], HistoryPageSize)
    IN  /\ HistoryVisible(s)
        /\ ~(historyPage[s] = totalPages \/ totalPages = 0)
        /\ historyPage' = [historyPage EXCEPT ![s] = Min(totalPages, @ + 1)]
        /\ UNCHANGED <<appVars, clockVars, calcVars, transactions, showHistory,
                       historyStartDate, historyEndDate, loads, opDates>>

\* the hours the clock is moved to: the first hour of every day and the last
\* hour of the day before
TickTimes ==
    {DayStart(d) : d \in Days} \cup {DayStart(d) - 1 : d \in Days \ {1}}

\* time passes
Tick ==
    /\ \E t \in TickTimes : t > now /\ now' = t
    /\ UNCHANGED <<appVars, historyVars, calcVars, createdAt, zone>>

----------------------------------------------------------------------------
(* The specification of the ledger: customers are looked up by phone and    *)
(* created from the prefilled form, and points are accrued and redeemed.    *)

\* a step of the ledger: the store stamps what was inserted; the history view
\* (which no handler reads) is left out of this specification
LedgerOnly == StoreClock /\ UNCHANGED historyVars

Next ==
    \/ \E s \in sessions, text \in PhoneTerms :
           HandleSearchStart(s, text) /\ LedgerOnly
    \/ \E s \in sessions, ok \in BOOLEAN :
           HandleSearchDone(s, ok) /\ LedgerOnly
    \/ \E s \in sessions :
           Reset(s) /\ LedgerOnly
    \/ \E s \in sessions :
           HandleAddCustomerStart(s) /\ LedgerOnly
    \/ \E s \in sessions, ok \in BOOLEAN :
           HandleAddCustomerDone(s, ok) /\ LedgerOnly
    \/ \E s \in sessions, halves \in PurchaseInputs :
           HandleAddPointsStart(s, halves) /\ LedgerOnly
    \/ \E s \in sessions, ok \in BOOLEAN :
           HandleAddPointsUpdateDone(s, ok) /\ LedgerOnly
    \/ \E s \in sessions, ok \in BOOLEAN :
           HandleAddPointsInsertDone(s, ok) /\ LedgerOnly
    \/ \E s \in sessions, r \in RedeemInputs(variant) :
           HandleRedeemStart(s, r) /\ LedgerOnly
    \/ \E s \in sessions, ok \in BOOLEAN :
           HandleRedeemUpdateDone(s, ok) /\ LedgerOnly
    \/ \E s \in sessions, ok \in BOOLEAN :
           HandleRedeemInsertDone(s, ok) /\ LedgerOnly

Spec == Init /\ [][Next]_vars

----------------------------------------------------------------------------
(* The specification of the history: one customer is looked up or created,  *)
(* earns and redeems points while time passes, and the history is opened,   *)
(* filtered by dates and closed, in either time zone.                       *)

\* what the user types into the date fields: nothing, or day 2
DateInputs == {NoDate, 2}

InitHistory ==
    /\ variant \in Variants
    /\ InitApp
    /\ zone \in Zones
    /\ arg = 0
    /\ result = NoResult

\* the handlers of the ledger reach the store; a query of loadTransactions
\* may fail
NextHistory ==
    \/ \E s \in sessions :
           /\ ~HistoryVisible(s)
           /\ HandleSearchStart(s, P1) /\ StoreClock /\ HistoryUntouched
    \/ \E s \in sessions :
           HandleSearchDone(s, TRUE) /\ StoreClock /\ CustomerEffects(s, FALSE)
    \/ \E s \in sessions :
           /\ ~HistoryVisible(s)
           /\ Reset(s) /\ StoreClock /\ CustomerEffects(s, FALSE)
    \/ \E s \in sessions :
           HandleAddCustomerStart(s) /\ StoreClock /\ HistoryUntouched
    \/ \E s \in sessions :
           HandleAddCustomerDone(s, TRUE) /\ StoreClock /\ CustomerEffects(s, FALSE)
    \/ \E s \in sessions :
           /\ ~HistoryVisible(s)
           /\ HandleAddPointsStart(s, 200) /\ StoreClock /\ ClosureDates(s)
    \/ \E s \in sessions :
           HandleAddPointsUpdateDone(s, TRUE) /\ StoreClock /\ HistoryUntouched
    \/ \E s \in sessions :
           HandleAddPointsInsertDone(s, TRUE) /\ StoreClock /\ CustomerEffects(s, TRUE)
    \/ \E s \in sessions :
           /\ ~HistoryVisible(s)
           /\ HandleRedeemStart(s, variant) /\ StoreClock /\ ClosureDates(s)
    \/ \E s \in sessions :
           HandleRedeemUpdateDone(s, TRUE) /\ StoreClock /\ HistoryUntouched
    \/ \E s \in sessions :
           HandleRedeemInsertDone(s, TRUE) /\ StoreClock /\ CustomerEffects(s, TRUE)
    \/ \E s \in sessions : OpenHistory(s)
    \/ \E s \in sessions : CloseHistory(s)
    \/ \E s \in sessions, d \in DateInputs : SetHistoryStartDate(s, d)
    \/ \E s \in sessions, d \in DateInputs : SetHistoryEndDate(s, d)
    \/ \E s \in sessions : \E req \in loads[s], ok \in BOOLEAN :
           LoadTransactionsDone(s, req, ok)
    \/ Tick

SpecHistory == InitHistory /\ [][NextHistory]_vars

----------------------------------------------------------------------------
(* The specification of the history pages: the component is mounted on a    *)
(* store that holds one customer with StoredTx purchases of $1, the last    *)
(* of them made on day 2; the customer is looked up, and the history is     *)
(* opened, filtered, paged through and closed.                              *)

\* the customer of the store, after StoredTx purchases of $1
StoredCustomer ==
    [id |-> 1, phone_number |-> P1, name |-> NullName, total_points |-> StoredTx]

InitPages ==
    /\ variant \in Variants
    /\ sessions = {1}
    /\ customersTbl = <<StoredCustomer>>
    /\ transactionsTbl = [k \in 1..StoredTx |-> AddTransaction(1, 1)]
    /\ createdAt = [k \in 1..StoredTx |->
                       IF k < StoredTx THEN DayStart(1) + (k - 1) ELSE DayStart(2)]
    /\ now = DayStart(2) + 1
    /\ zone = ZoneUTC
    /\ currentCustomer = [s \in sessions |-> NoCustomer]
    /\ customers = [s \in sessions |-> customersTbl]
    /\ showAddForm = [s \in sessions |-> FALSE]
    /\ newCustomer = [s \in sessions |-> BlankNewCustomer]
    /\ nameResults = [s \in sessions |-> <<>>]
    /\ error = [s \in sessions |-> MsgNone]
    /\ loading = [s \in sessions |-> FALSE]
    /\ pc = [s \in sessions |-> "idle"]
    /\ op = [s \in sessions |-> NoOp]
    /\ transactions = [s \in sessions |-> <<>>]
    /\ showHistory = [s \in sessions |-> FALSE]
    /\ historyPage = [s \in sessions |-> 1]
    /\ historyStartDate = [s \in sessions |-> NoDate]
    /\ historyEndDate = [s \in sessions |-> NoDate]
    /\ loads = [s \in sessions |-> {}]
    /\ opDates = [s \in sessions |-> NoDates]
    /\ arg = 0
    /\ result = NoResult

\* the search reaches the store; a query of loadTransactions may fail
NextPages ==
    \/ \E s \in sessions :
           /\ ~HistoryVisible(s)
           /\ HandleSearchStart(s, P1) /\ StoreClock /\ HistoryUntouched
    \/ \E s \in sessions :
           HandleSearchDone(s, TRUE) /\ StoreClock /\ CustomerEffects(s, FALSE)
    \/ \E s \in sessions :
           /\ ~HistoryVisible(s)
           /\ Reset(s) /\ StoreClock /\ CustomerEffects(s, FALSE)
    \/ \E s \in sessions : OpenHistory(s)
    \/ \E s \in sessions : CloseHistory(s)
    \/ \E s \in sessions, d \in DateInputs : SetHistoryStartDate(s, d)
    \/ \E s \in sessions, d \in DateInputs : SetHistoryEndDate(s, d)
    \/ \E s \in sessions : \E req \in loads[s], ok \in BOOLEAN :
           LoadTransactionsDone(s, req, ok)
    \/ \E s \in sessions : PreviousHistoryPage(s)
    \/ \E s \in sessions : NextHistoryPage(s)

SpecPages == InitPages /\ [][NextPages]_vars

----------------------------------------------------------------------------
(* The specification of the cached balance: the ledger of one customer,     *)
(* where a balance write may succeed, fail without effect, or take effect   *)
(* with its answer lost.                                                    *)

NextCache ==
    \/ \E s \in sessions :
           HandleSearchStart(s, P1) /\ LedgerOnly
    \/ \E s \in sessions, ok \in BOOLEAN :
           HandleSearchDone(s, ok) /\ LedgerOnly
    \/ \E s \in sessions :
           Reset(s) /\ LedgerOnly
    \/ \E s \in sessions :
           HandleAddCustomerStart(s) /\ LedgerOnly
    \/ \E s \in sessions :
           HandleAddCustomerDone(s, TRUE) /\ LedgerOnly
    \/ \E s \in sessions, halves \in PurchaseInputs :
           HandleAddPointsStart(s, halves) /\ LedgerOnly
    \/ \E s \in sessions, ok \in BOOLEAN :
           HandleAddPointsUpdateDone(s, ok) /\ LedgerOnly
    \/ \E s \in sessions :
           HandleAddPointsUpdateLost(s) /\ LedgerOnly
    \/ \E s \in sessions, ok \in BOOLEAN :
           HandleAddPointsInsertDone(s, ok) /\ LedgerOnly
    \/ \E s \in sessions, r \in RedeemInputs(variant) :
           HandleRedeemStart(s, r) /\ LedgerOnly
    \/ \E s \in sessions, ok \in BOOLEAN :
           HandleRedeemUpdateDone(s, ok) /\ LedgerOnly
    \/ \E s \in sessions :
           HandleRedeemUpdateLost(s) /\ LedgerOnly
    \/ \E s \in sessions, ok \in BOOLEAN :
           HandleRedeemInsertDone(s, ok) /\ LedgerOnly

SpecCache == Init /\ [][NextCache]_vars

----------------------------------------------------------------------------
(* The specification of two sessions: the component is mounted in two       *)
(* browsers on one store; in both the customer is looked up or created,     *)
(* buys for $100 and redeems 100 points.  The store answers every call.     *)

InitTwoSessions ==
    /\ variant \in Variants
    /\ sessions = {1, 2}
    /\ customersTbl = <<>>
    /\ transactionsTbl = <<>>
    /\ createdAt = <<>>
    /\ now = DayStart(1)
    /\ zone = ZoneUTC
    /\ currentCustomer = [s \in sessions |-> NoCustomer]
    /\ customers = [s \in sessions |-> <<>>]
    /\ showAddForm = [s \in sessions |-> FALSE]
    /\ newCustomer = [s \in sessions |-> BlankNewCustomer]
    /\ nameResults = [s \in sessions |-> <<>>]
    /\ error = [s \in sessions |-> MsgNone]
    /\ loading = [s \in sessions |-> FALSE]
    /\ pc = [s \in sessions |-> "idle"]
    /\ op = [s \in sessions |-> NoOp]
    /\ transactions = [s \in sessions |-> <<>>]
    /\ showHistory = [s \in sessions |-> FALSE]
    /\ historyPage = [s \in sessions |-> 1]
    /\ historyStartDate = [s \in sessions |-> NoDate]
    /\ historyEndDate = [s \in sessions |-> NoDate]
    /\ loads = [s \in sessions |-> {}]
    /\ opDates = [s \in sessions |-> NoDates]
    /\ arg = 0
    /\ result = NoResult

NextTwoSessions ==
    \/ \E s \in sessions :
           HandleSearchStart(s, P1) /\ LedgerOnly
    \/ \E s \in sessions :
           HandleSearchDone(s, TRUE) /\ LedgerOnly
    \/ \E s \in sessions :
           HandleAddCustomerStart(s) /\ LedgerOnly
    \/ \E s \in sessions :
           HandleAddCustomerDone(s, TRUE) /\ LedgerOnly
    \/ \E s \in sessions :
           HandleAddPointsStart(s, 200) /\ LedgerOnly
    \/ \E s \in sessions :
           HandleAddPointsUpdateDone(s, TRUE) /\ LedgerOnly
    \/ \E s \in sessions :
           HandleAddPointsInsertDone(s, TRUE) /\ LedgerOnly
    \/ \E s \in sessions :
           HandleRedeemStart(s, variant) /\ LedgerOnly
    \/ \E s \in sessions :
           HandleRedeemUpdateDone(s, TRUE) /\ LedgerOnly
    \/ \E s \in sessions :
           HandleRedeemInsertDone(s, TRUE) /\ LedgerOnly

SpecTwoSessions == InitTwoSessions /\ [][NextTwoSessions]_vars

----------------------------------------------------------------------------
(* The specification of the lookup: customers are searched by phone and by  *)
(* name, picked from the name results, and created from the form as the     *)
(* user fills it in.                                                        *)

\* the phone numbers the user puts into the add-customer form
LookupPhones == {P1, SixDigits}

\* the store answers every call
NextLookup ==
    \/ \E s \in sessions, text \in LookupTerms :
           HandleSearchStart(s, text) /\ LedgerOnly
    \/ \E s \in sessions :
           HandleSearchDone(s, TRUE) /\ LedgerOnly
    \/ \E s \in sessions :
           Reset(s) /\ LedgerOnly
    \/ \E s \in sessions, i \in 1..MaxCustomers :
           ViewNameResult(s, i) /\ LedgerOnly
    \/ \E s \in sessions, phone \in LookupPhones, name \in NameInputs :
           EditNewCustomer(s, phone, name) /\ LedgerOnly
    \/ \E s \in sessions :
           /\ Len(customersTbl) < MaxCustomers
           /\ HandleAddCustomerStart(s) /\ LedgerOnly
    \/ \E s \in sessions :
           HandleAddCustomerDone(s, TRUE) /\ LedgerOnly

SpecLookup == Init /\ [][NextLookup]_vars

----------------------------------------------------------------------------
(* The specification of the session: customers are searched by phone and by *)
(* name, picked from the name results and created from the form, and the    *)
(* current customer buys for $100 and redeems 100 points.  A search or the  *)
(* creation of a customer may fail at the store.                            *)

NextSession ==
    \/ \E s \in sessions, text \in LookupTerms :
           HandleSearchStart(s, text) /\ LedgerOnly
    \/ \E s \in sessions, ok \in BOOLEAN :
           HandleSearchDone(s, ok) /\ LedgerOnly
    \/ \E s \in sessions :
           Reset(s) /\ LedgerOnly
    \/ \E s \in sessions, i \in 1..MaxCustomers :
           ViewNameResult(s, i) /\ LedgerOnly
    \/ \E s \in sessions, phone \in LookupPhones, name \in NameInputs :
           EditNewCustomer(s, phone, name) /\ LedgerOnly
    \/ \E s \in sessions :
           /\ Len(customersTbl) < MaxCustomers
           /\ HandleAddCustomerStart(s) /\ LedgerOnly
    \/ \E s \in sessions, ok \in BOOLEAN :
           HandleAddCustomerDone(s, ok) /\ LedgerOnly
    \/ \E s \in sessions :
           HandleAddPointsStart(s, 200) /\ LedgerOnly
    \/ \E s \in sessions :
           HandleAddPointsUpdateDone(s, TRUE) /\ LedgerOnly
    \/ \E s \in sessions :
           HandleAddPointsInsertDone(s, TRUE) /\ LedgerOnly
    \/ \E s \in sessions :
           HandleRedeemStart(s, variant) /\ LedgerOnly
    \/ \E s \in sessions :
           HandleRedeemUpdateDone(s, TRUE) /\ LedgerOnly
    \/ \E s \in sessions :
           HandleRedeemInsertDone(s, TRUE) /\ LedgerOnly

SpecSession == Init /\ [][NextSession]_vars

----------------------------------------------------------------------------
(* The specification of customer creation: customers are searched by phone  *)
(* and created from the form, whose phone field the user may change; a      *)
(* customer found earns points once.                                        *)

NextAddCustomer ==
    \/ \E s \in sessions, text \in PhoneTerms :
           HandleSearchStart(s, text) /\ LedgerOnly
    \/ \E s \in sessions, ok \in BOOLEAN :
           HandleSearchDone(s, ok) /\ LedgerOnly
    \/ \E s \in sessions :
           Reset(s) /\ LedgerOnly
    \/ \E s \in sessions, phone \in PhoneInputs :
           EditNewCustomer(s, phone, newCustomer[s].name) /\ LedgerOnly
    \/ \E s \in sessions :
           HandleAddCustomerStart(s) /\ LedgerOnly
    \/ \E s \in sessions, ok \in BOOLEAN :
           HandleAddCustomerDone(s, ok) /\ LedgerOnly
    \/ \E s \in sessions :
           /\ transactionsTbl = <<>>
           /\ HandleAddPointsStart(s, 200) /\ LedgerOnly
    \/ \E s \in sessions :
           HandleAddPointsUpdateDone(s, TRUE) /\ LedgerOnly
    \/ \E s \in sessions :
           HandleAddPointsInsertDone(s, TRUE) /\ LedgerOnly

SpecAddCustomer == Init /\ [][NextAddCustomer]_vars

----------------------------------------------------------------------------
(* Claims about accrual *)

\* the stored balance of customer id
StoredBalance(id) == customersTbl[id].total_points

\* C1: for every positive integer d, an accrue that runs to its success path
\* has set the stored balance to the old balance + d (the balance write) and
\* appends exactly one transaction of kind 'add' with amount d and
\* points_changed +d (the handler's end).
C1_AccrueAddsPointsAndTransaction ==
    [][\A s \in sessions :
         /\ (HandleAddPointsUpdateDone(s, TRUE) /\ op[s].input = 2 * op[s].amount)
                => customersTbl'[op[s].customer.id].total_points
                     = StoredBalance(op[s].customer.id) + op[s].amount
         /\ ((\E ok \in BOOLEAN : HandleAddPointsInsertDone(s, ok))
                /\ op[s].input = 2 * op[s].amount)
                => /\ transactionsTbl' =
                        Append(transactionsTbl,
                               [customer_id |-> op[s].customer.id, type |-> "add",
                                amount |-> op[s].amount,
                                points_changed |-> op[s].amount])
                   /\ customersTbl'[op[s].customer.id].total_points
                        = op[s].customer.total_points + op[s].amount
      ]_vars

\* C2: accrue with a purchase amount d <= 0 is rejected with the InvalidAmount
\* message; the store (balances, transactions) and the cached current customer
\* are unchanged and the handler reaches no store call.
C2_AccrueRejectsNonPositive ==
    [][\A s \in sessions, halves \in PurchaseInputs :
         (HandleAddPointsStart(s, halves) /\ halves <= 0)
            => /\ error'[s] = MsgInvalidAmount
               /\ storeVars' = storeVars
               /\ currentCustomer' = currentCustomer
               /\ pc'[s] = "idle"
               /\ loading'[s] = FALSE
      ]_vars

\* C2 witness: a customer with points is current and the rejection is shown
C2_Witness ==
    \E s \in sessions :
        /\ error[s] = MsgInvalidAmount
        /\ currentCustomer[s] # NoCustomer
        /\ currentCustomer[s].total_points > 0
        /\ pc[s] = "idle"
        /\ transactionsTbl # <<>>

----------------------------------------------------------------------------
(* Claims about redemption *)

\* r is a multiple of the variant's increment
IsMultiple(r, v) == r % v = 0

\* the points r dollars cost: r x 100 / REDEEM_INCREMENT
PointsFor(r, v) == (r * 100) \div v

\* C4: for every redeem amount that is not a multiple of the increment (5 or
\* 10), redeem fails with the InvalidIncrement message of the variant, and the
\* balances and the transaction list are unchanged.
C4_RedeemRejectsNonMultiple ==
    [][\A s \in sessions, r \in RedeemInputs(variant) :
         (HandleRedeemStart(s, r) /\ ~IsMultiple(r, variant))
            => /\ error'[s] = (IF variant = 5 THEN MsgInvalidIncrement5
                               ELSE MsgInvalidIncrement10)
               /\ storeVars' = storeVars
               /\ currentCustomer' = currentCustomer
               /\ pc'[s] = "idle"
      ]_vars

\* C4 witness: the rejection is shown for a customer who could pay
C4_Witness ==
    \E s \in sessions :
        /\ error[s] \in {MsgInvalidIncrement5, MsgInvalidIncrement10}
        /\ currentCustomer[s] # NoCustomer
        /\ currentCustomer[s].total_points >= 100
        /\ pc[s] = "idle"

\* C5: for every redeem amount r that is a multiple of the increment, if the
\* customer's balance is below r x 100 / increment then redeem fails with
\* InsufficientPoints, the store is unchanged and the handler reaches no
\* store call.
C5_RedeemRejectsInsufficient ==
    [][\A s \in sessions, r \in RedeemInputs(variant) :
         (/\ HandleRedeemStart(s, r)
          /\ IsMultiple(r, variant)
          /\ StoredBalance(currentCustomer[s].id) < PointsFor(r, variant))
            => /\ error'[s] = MsgInsufficientPoints
               /\ storeVars' = storeVars
               /\ currentCustomer' = currentCustomer
               /\ pc'[s] = "idle"
               /\ loading'[s] = FALSE
      ]_vars

\* C5 witness: the rejection is shown for a customer who has points, but too few
C5_Witness ==
    \E s \in sessions :
        /\ error[s] = MsgInsufficientPoints
        /\ currentCustomer[s] # NoCustomer
        /\ StoredBalance(currentCustomer[s].id) = 100
        /\ pc[s] = "idle"

\* C6: for every valid redeem amount r with balance >= r x 100 / increment, a
\* redeem that runs to its success path has decreased the stored balance by
\* exactly r x 100 / increment and appends one transaction of kind 'redeem'
\* with amount r and points_changed -(r x 100 / increment).
C6_RedeemSubtractsPointsAndAddsTransaction ==
    [][\A s \in sessions :
         /\ (HandleRedeemUpdateDone(s, TRUE) /\ op[s].amount > 0)
                => customersTbl'[op[s].customer.id].total_points
                     = StoredBalance(op[s].customer.id)
                         - PointsFor(op[s].amount, variant)
         /\ ((\E ok \in BOOLEAN : HandleRedeemInsertDone(s, ok)) /\ op[s].amount > 0)
                => transactionsTbl' =
                     Append(transactionsTbl,
                            [customer_id |-> op[s].customer.id, type |-> "redeem",
                             amount |-> op[s].amount,
                             points_changed |-> -PointsFor(op[s].amount, variant)])
      ]_vars

----------------------------------------------------------------------------
(* Claims about the ledger as a whole *)

\* the sum of points_changed over the transactions of customer id
RECURSIVE SumDeltas(_, _)
SumDeltas(txs, id) ==
    IF txs = <<>> THEN 0
    ELSE (IF Head(txs).customer_id = id THEN Head(txs).points_changed ELSE 0)
         + SumDeltas(Tail(txs), id)

\* C8: in every reachable state every customer's stored balance is an
\* integer >= 0.
C8_BalanceNeverNegative ==
    \A i \in IdsOf(customersTbl) : customersTbl[i].total_points \in Nat

\* C8 witness: a customer earned points, redeemed all of them and stands at 0,
\* after a balance write of the session failed at the store
C8_Witness ==
    \E s \in sessions, i \in IdsOf(customersTbl) :
        /\ customersTbl[i].total_points = 0
        /\ \E k \in 1..Len(transactionsTbl) :
               /\ transactionsTbl[k].customer_id = i
               /\ transactionsTbl[k].type = "redeem"
               /\ transactionsTbl[k].points_changed < 0
        /\ error[s] = MsgRedeemFailed

\* C9: whenever no accrue or redeem is in flight, for every customer the sum
\* of points_changed over the customer's transactions equals the stored
\* balance.
C9_LedgerConsistent ==
    (\A s \in sessions : pc[s] \notin {"addPointsUpdate", "addPointsInsert",
                                       "redeemUpdate", "redeemInsert"})
        => \A i \in IdsOf(customersTbl) :
               SumDeltas(transactionsTbl, i) = customersTbl[i].total_points

----------------------------------------------------------------------------
(* Claims about the display functions *)

\* C10: for every balance >= 0, getRedemptionOptions returns exactly the
\* multiples of the increment from the increment up to
\* floor(balance / 100) x increment, ascending and without duplicates, and the
\* empty list when balance < 100; balance 250 at increment 5 gives [5, 10] and
\* balance 90 gives [].
C10_RedemptionOptions ==
    result.kind = "options"
        => /\ Len(result.value) = arg \div 100
           /\ \A k \in 1..Len(result.value) : result.value[k] = k * variant
           /\ \A j, k \in 1..Len(result.value) :
                  j < k => result.value[j] < result.value[k]
           /\ (arg < 100 => result.value = <<>>)
           /\ (arg = 90 => result.value = <<>>)
           /\ ((arg = 250 /\ variant = 5) => result.value = <<5, 10>>)
           /\ ((arg = 250 /\ variant = 10) => result.value = <<10, 20>>)

\* C10 witness: the buttons of balance 250 in the $5 variant are $5 and $10
C10_Witness ==
    /\ result.kind = "options"
    /\ variant = 5
    /\ arg = 250
    /\ result.value = <<5, 10>>

\* the decimal digit a character stands for
DigitValue(c) == CHOOSE d \in 0..9 : DigitChar(d) = c

\* the natural number a sequence of digits stands for
RECURSIVE TextNat(_)
TextNat(t) ==
    IF t = <<>> THEN 0
    ELSE 10 * TextNat(SubSeq(t, 1, Len(t) - 1)) + DigitValue(t[Len(t)])

\* t is an amount written with exactly two decimals
IsTwoDecimals(t) ==
    /\ Len(t) >= 4
    /\ t[Len(t) - 2] = "."
    /\ \A i \in (1..Len(t)) \ {Len(t) - 2} : t[i] \in Digits
    /\ (Len(t) > 4 => t[1] # "0")

\* the cents an amount written with two decimals stands for
CentsOf(t) ==
    100 * TextNat(SubSeq(t, 1, Len(t) - 3)) + TextNat(SubSeq(t, Len(t) - 1, Len(t)))

\* C11: for every balance >= 0, formatPointsToDollars writes
\* balance / 100 x increment with exactly two decimals, that is exactly
\* balance x increment cents, in the $5 and in the $10 variant; 250 points at
\* increment 5 give 12.50.
C11_DollarsRedeemable ==
    result.kind = "dollars"
        => /\ IsTwoDecimals(result.value)
           /\ CentsOf(result.value) = arg * variant
           /\ ((arg = 250 /\ variant = 5)
                  => result.value = <<"1", "2", ".", "5", "0">>)

\* C11 witness: 250 points are worth 25.00 dollars in the $10 variant
C11_Witness ==
    /\ result.kind = "dollars"
    /\ variant = 10
    /\ arg = 250
    /\ result.value = <<"2", "5", ".", "0", "0">>

\* C12: for a transaction list of length n, page p >= 1 and page size s, the
\* page slice is exactly the elements at the 0-based places
\* (p-1)*s .. min(p*s, n)-1 in list order, and the displayed number of pages
\* is ceil(n/s) but never less than 1; the empty list with page 1 and size 10
\* gives an empty slice and 1 page.
C12_Paginate ==
    result.kind = "page"
        => LET n == arg.n
               p == arg.page
               sz == arg.size
               first == (p - 1) * sz
               last == (IF p * sz <= n THEN p * sz ELSE n) - 1
           IN  /\ Len(result.slice) = (IF last >= first THEN last - first + 1 ELSE 0)
               /\ \A k \in 1..Len(result.slice) :
                      result.slice[k] = ListOf(n)[first + k]
               /\ result.totalPages >= 1
               /\ (n > 0 => /\ result.totalPages * sz >= n
                            /\ (result.totalPages - 1) * sz < n)
               /\ (n = 0 => result.totalPages = 1)
               /\ ((n = 0 /\ p = 1 /\ sz = 10) => result.slice = <<>>)

\* C12 witness: the third page of 21 transactions at page size 10 holds the
\* last transaction alone, of 3 pages
C12_Witness ==
    /\ result.kind = "page"
    /\ arg = [n |-> 21, page |-> 3, size |-> 10]
    /\ result.slice = <<21>>
    /\ result.totalPages = 3

----------------------------------------------------------------------------
(* Claims about the history *)

\* the elements of a list
Range(list) == {list[i] : i \in 1..Len(list)}

\* the transactions of customer id created on or after the first hour of day
\* startDate and before the first hour of the day after endDate, either
\* bound dropped when its date is not set
CreatedWithin(id, startDate, endDate) ==
    {TransactionRow(k) : k \in
        {j \in 1..Len(transactionsTbl) :
            /\ transactionsTbl[j].customer_id = id
            /\ (startDate # NoDate => createdAt[j] >= 24 * startDate)
            /\ (endDate # NoDate => createdAt[j] < 24 * (endDate + 1))}}

\* C13: a history load that the store answers puts into the list exactly the
\* customer's transactions created at or after the start of day startDate and
\* strictly before the start of the day after endDate (so that with both set
\* to one day every transaction of that day is in and no other); a date that
\* is not set bounds nothing.
C13_DateFilter ==
    [][\A s \in sessions : \A req \in loads[s] :
         LoadTransactionsDone(s, req, TRUE)
            => /\ Range(transactions'[s])
                    = CreatedWithin(req.customer_id, req.startDate, req.endDate)
               /\ Len(transactions'[s])
                    = Cardinality(CreatedWithin(req.customer_id, req.startDate,
                                                req.endDate))
      ]_vars

----------------------------------------------------------------------------
(* Claims about the lookup *)

\* no two customers have the same phone number
PhonesUnique(tbl) ==
    \A i, j \in IdsOf(tbl) : tbl[i].phone_number = tbl[j].phone_number => i = j

\* C14: when handleAddCustomer asks the store to create a customer with a
\* phone number that a stored customer already has, and the store answers, the
\* DuplicatePhone message is shown, no customer is added, no record or balance
\* changes, and the session's current customer and customer list are
\* unchanged; the phone numbers of the stored customers stay unique.
C14_DuplicatePhoneRejected ==
    [][/\ \A s \in sessions :
            (/\ HandleAddCustomerDone(s, TRUE)
             /\ \E i \in IdsOf(customersTbl) :
                    customersTbl[i].phone_number = op[s].form.phoneNumber)
               => /\ error'[s] = MsgDuplicatePhone
                  /\ customersTbl' = customersTbl
                  /\ transactionsTbl' = transactionsTbl
                  /\ currentCustomer' = currentCustomer
                  /\ customers' = customers
       /\ PhonesUnique(customersTbl')
      ]_vars

\* C14 witness: the message is shown while the customer who has the phone
\* number keeps the 100 points earned before
C14_Witness ==
    \E s \in sessions :
        /\ error[s] = MsgDuplicatePhone
        /\ pc[s] = "idle"
        /\ showAddForm[s]
        /\ \E i \in IdsOf(customersTbl) :
               /\ customersTbl[i].phone_number = newCustomer[s].phoneNumber
               /\ customersTbl[i].total_points = 100

\* the text t without the blanks at its ends
Trimmed(t) ==
    LET inner == {i \in 1..Len(t) : t[i] # " "}
    IN  IF inner = {} THEN <<>>
        ELSE SubSeq(t, CHOOSE i \in inner : \A j \in inner : i <= j,
                       CHOOSE i \in inner : \A j \in inner : i >= j)

\* the text t consists solely of 7 or more decimal digits
SevenOrMoreDigits(t) == Len(t) >= 7 /\ Range(t) \subseteq Digits

\* the names n and m are equal but for the case of their letters
SameNameIgnoringCase(n, m) ==
    /\ n # NullName
    /\ Len(n) = Len(m)
    /\ \A i \in 1..Len(n) :
           \/ n[i] = m[i]
           \/ {n[i], m[i]} \in {{"a", "A"}, {"n", "N"}}

Matching(term) ==
    {customersTbl[i] : i \in
        {j \in IdsOf(customersTbl) :
            SameNameIgnoringCase(customersTbl[j].name, term)}}

\* C16: a name lookup that the store answers leaves no current customer when
\* no customer matches; makes the one matching customer current when exactly
\* one matches; and with two or more matches makes no customer current and
\* presents exactly the matching customers as the list to choose from.  The
\* choice from that list becomes the current customer and clears the list.
C16_NameLookupOutcomes ==
    [][\A s \in sessions :
         /\ (HandleSearchDone(s, TRUE) /\ ~op[s].isPhone)
                => LET m == Matching(op[s].input)
                   IN  /\ m = {}
                            => /\ currentCustomer'[s] = NoCustomer
                               /\ nameResults'[s] = <<>>
                       /\ Cardinality(m) = 1
                            => /\ currentCustomer'[s] \in m
                               /\ nameResults'[s] = <<>>
                       /\ Cardinality(m) >= 2
                            => /\ currentCustomer'[s] = NoCustomer
                               /\ Range(nameResults'[s]) = m
                               /\ Len(nameResults'[s]) = Cardinality(m)
         /\ \A i \in 1..MaxCustomers :
                ViewNameResult(s, i)
                   => /\ currentCustomer'[s] = nameResults[s][i]
                      /\ nameResults'[s] = <<>>
      ]_vars

\* C16 witness: a search for ANN found two customers named ann, and both are
\* listed with no customer current
C16_Witness ==
    \E s \in sessions :
        /\ pc[s] = "idle"
        /\ currentCustomer[s] = NoCustomer
        /\ Len(nameResults[s]) = 2
        /\ nameResults[s][1] # nameResults[s][2]
        /\ \A i \in 1..2 : nameResults[s][i].name = Ann
        /\ Range(nameResults[s]) = Range(customersTbl)

\* the cents an amount written with two decimals and a sign stands for
SignedCentsOf(t) == IF t[1] = "-" THEN -CentsOf(Tail(t)) ELSE CentsOf(t)

\* the sum of the numbers f[i] over the places i in a set
RECURSIVE SumAt(_, _)
SumAt(f, places) ==
    IF places = {} THEN 0
    ELSE LET i == CHOOSE j \in places : TRUE
         IN  f[i] + SumAt(f, places \ {i})

\* the places of the transactions of a kind in a list
PlacesOfKind(list, kind) == {i \in 1..Len(list) : list[i].type = kind}

\* C17: for the loaded transaction list, totalSpent is the sum of amount over
\* the transactions of kind 'add', and totalRedeemedDollars is minus the sum
\* of points_changed over the transactions of kind 'redeem', / 100 x 5,
\* written with two decimals; both are taken over the whole list, not over
\* the page shown.
C17_Summarize ==
    result.kind = "totals"
        => LET list == LoadedList(arg.n, arg.first)
               redeemed == result.totalRedeemedDollars
               digits == IF redeemed[1] = "-" THEN Tail(redeemed) ELSE redeemed
           IN  /\ result.totalSpent
                    = SumAt([i \in 1..Len(list) |-> list[i].amount],
                            PlacesOfKind(list, "add"))
               /\ IsTwoDecimals(digits)
               /\ SignedCentsOf(redeemed)
                    = (-SumAt([i \in 1..Len(list) |-> list[i].points_changed],
                              PlacesOfKind(list, "redeem"))) * 5

\* C17 witness: a list of 12 transactions, two more than a page, with five
\* purchases and seven redemptions
C17_Witness ==
    /\ result.kind = "totals"
    /\ arg = [n |-> 12, first |-> 1]
    /\ result.totalSpent = 302
    /\ result.totalRedeemedDollars = <<"2", "5", ".", "0", "0">>

----------------------------------------------------------------------------
(* Claims about failures of the store and about its writes *)

\* the messages shown for a failure of the store
StoreFailureMessages ==
    {MsgSearchFailed, MsgAddCustomerFailed, MsgAddPointsFailed, MsgRedeemFailed}

\* a call of session s to the store fails in this step
StoreCallFails(s) ==
    \/ HandleSearchDone(s, FALSE)
    \/ HandleAddCustomerDone(s, FALSE)
    \/ HandleAddPointsUpdateDone(s, FALSE)
    \/ HandleAddPointsInsertDone(s, FALSE)
    \/ HandleRedeemUpdateDone(s, FALSE)
    \/ HandleRedeemInsertDone(s, FALSE)
    \/ \E req \in loads[s] : LoadTransactionsDone(s, req, FALSE)

\* C18: whenever a call to the store fails (the balance update, the
\* transaction insert, the customer insert, a search or a history load), the
\* session ends the operation showing an error message, not the cleared error
\* of the success path.
C18_StoreFailureSurfaced ==
    [][\A s \in sessions :
         StoreCallFails(s) => error'[s] \in StoreFailureMessages
      ]_vars

\* list is old with nothing, or with one element, added at its end
SameOrAppended(old, list) ==
    /\ Len(list) \in {Len(old), Len(old) + 1}
    /\ SubSeq(list, 1, Len(old)) = old

\* C19: no step of the program (search, add customer, accrue, redeem,
\* history load, opening, filtering and closing the history, reset) modifies
\* or removes a stored transaction or its time of creation, or removes a
\* customer; a step changes the store at most by inserting one customer, by
\* updating one customer's balance, or by inserting one transaction.
C19_AppendOnly ==
    [][/\ SameOrAppended(transactionsTbl, transactionsTbl')
       /\ SameOrAppended(createdAt, createdAt')
       /\ Len(createdAt') = Len(transactionsTbl')
       /\ Len(customersTbl') \in {Len(customersTbl), Len(customersTbl) + 1}
       /\ \A i \in IdsOf(customersTbl) :
              /\ customersTbl'[i].id = customersTbl[i].id
              /\ customersTbl'[i].phone_number = customersTbl[i].phone_number
              /\ customersTbl'[i].name = customersTbl[i].name
       /\ \/ storeVars' = storeVars
          \/ /\ customersTbl' # customersTbl
             /\ transactionsTbl' = transactionsTbl
             /\ \/ SameOrAppended(customersTbl, customersTbl')
                \/ \E i \in IdsOf(customersTbl) :
                       \A j \in IdsOf(customersTbl') \ {i} :
                           customersTbl'[j] = customersTbl[j]
          \/ /\ customersTbl' = customersTbl
             /\ transactionsTbl' # transactionsTbl
      ]_vars

\* C19 witness: two transactions are stored, the older one as it was created
\* on day 1, and the history shows both
C19_Witness ==
    \E s \in sessions :
        /\ Len(transactionsTbl) = 2
        /\ transactionsTbl[1].type = "add"
        /\ transactionsTbl[2].type = "redeem"
        /\ createdAt[1] = DayStart(1)
        /\ createdAt[2] >= DayStart(2)
        /\ HistoryVisible(s)
        /\ Len(transactions[s]) = 2
        /\ customersTbl[1].total_points = 0

\* the positions of a handler waiting for its balance write and for its
\* transaction insert, and what belongs to each
UpdatePcs == {"addPointsUpdate", "redeemUpdate"}

InsertPcs == {"addPointsInsert", "redeemInsert"}

InsertAfter(p) == IF p = "addPointsUpdate" THEN "addPointsInsert" ELSE "redeemInsert"

FailedMessage(p) == IF p = "addPointsUpdate" THEN MsgAddPointsFailed ELSE MsgRedeemFailed

\* C20: within one accrue or redeem the balance write is answered before the
\* transaction insert is issued; each of the two is attempted once (a handler
\* waits for its balance write only after the user's action, for its insert
\* only after its own balance write was stored, and ends after the insert); a
\* failed balance write ends the handler with its message, with the store, the
\* session's customer and its customer list unchanged.
C20_WriteOrder ==
    [][/\ \A s \in sessions :
              /\ (pc'[s] \in UpdatePcs /\ pc'[s] # pc[s]) => pc[s] = "idle"
              /\ (pc[s] \in UpdatePcs /\ pc'[s] # pc[s]) =>
                     \/ /\ pc'[s] = InsertAfter(pc[s])
                        /\ customersTbl'[op[s].customer.id].total_points
                               = op[s].newPoints
                        /\ transactionsTbl' = transactionsTbl
                     \/ /\ pc'[s] = "idle"
                        /\ storeVars' = storeVars
                        /\ currentCustomer'[s] = currentCustomer[s]
                        /\ customers'[s] = customers[s]
                        /\ error'[s] = FailedMessage(pc[s])
              /\ (pc'[s] \in InsertPcs /\ pc'[s] # pc[s]) =>
                     /\ pc[s] \in UpdatePcs
                     /\ pc'[s] = InsertAfter(pc[s])
              /\ (pc[s] \in InsertPcs /\ pc'[s] # pc[s]) =>
                     /\ pc'[s] = "idle"
                     /\ customersTbl' = customersTbl
       /\ transactionsTbl' # transactionsTbl =>
              \E s \in sessions :
                  /\ pc[s] \in InsertPcs
                  /\ pc'[s] = "idle"
                  /\ Len(transactionsTbl') = Len(transactionsTbl) + 1
                  /\ customersTbl[op[s].customer.id].total_points = op[s].newPoints
       /\ (\E i \in IdsOf(customersTbl) :
               customersTbl'[i].total_points # customersTbl[i].total_points) =>
              \E s \in sessions :
                  /\ pc[s] \in UpdatePcs
                  /\ pc'[s] = InsertAfter(pc[s])
      ]_vars

\* C20 witness: after one completed accrual (balance written, transaction
\* inserted) the balance write of a redemption has failed: one transaction
\* is stored and the session still shows the balance of the accrual
C20_Witness ==
    \E s \in sessions :
        /\ error[s] = MsgRedeemFailed
        /\ pc[s] = "idle"
        /\ Len(transactionsTbl) = 1
        /\ transactionsTbl[1].type = "add"
        /\ currentCustomer[s] # NoCustomer
        /\ currentCustomer[s].total_points = transactionsTbl[1].points_changed
        /\ customersTbl[currentCustomer[s].id].total_points
               = currentCustomer[s].total_points

----------------------------------------------------------------------------
(* Claims about the session: creation of customers, the history shown, the  *)
(* cached balance, two sessions, the three outcomes of a search             *)

HistoryOfCurrent(s) ==
    IF currentCustomer[s] = NoCustomer THEN {}
    ELSE CreatedWithin(currentCustomer[s].id, historyStartDate[s],
                       historyEndDate[s])

\* the list runs from the newest transaction to the oldest
NewestFirst(list) ==
    \A i, j \in 1..Len(list) : i < j => list[i].created_at >= list[j].created_at

\* C22: whenever no query of loadTransactions is in flight, the loaded list
\* holds exactly the current customer's transactions created within the
\* current start and end dates, newest first, and is empty when there is no
\* current customer.
C22_HistoryOfCurrentCustomer ==
    \A s \in sessions :
        loads[s] = {}
           => /\ Range(transactions[s]) = HistoryOfCurrent(s)
              /\ Len(transactions[s]) = Cardinality(HistoryOfCurrent(s))
              /\ NewestFirst(transactions[s])

\* C23: for every balance, handleRedeem accepts every amount that
\* getRedemptionOptions returns for that balance (neither the increment
\* message nor the insufficient-points message), and rejects every positive
\* multiple of the increment above the largest option with the
\* insufficient-points message.
C23_OptionsAgreeWithRedeem ==
    result.kind = "redeem"
        => LET options == Range(result.options)
           IN  /\ arg.amount \in options
                    => /\ result.outcome.accepted
                       /\ result.outcome.error = MsgNone
               /\ (/\ arg.amount > 0
                   /\ arg.amount % variant = 0
                   /\ \A o \in options : arg.amount > o)
                    => /\ ~result.outcome.accepted
                       /\ result.outcome.error = MsgInsufficientPoints

\* C23 witness: with 450 points the largest button is accepted
C23_Witness ==
    /\ result.kind = "redeem"
    /\ arg.balance = 450
    /\ Len(result.options) = 4
    /\ arg.amount = result.options[4]
    /\ result.outcome.accepted

\* C24: in every state the history page number is at least 1 and at most
\* max(1, ceil(transactions.length / pageSize)): the page is page 1, or the
\* loaded list reaches into it, so that no empty page of a non-empty list is
\* shown.
C24_HistoryPageInRange ==
    \A s \in sessions :
        /\ historyPage[s] >= 1
        /\ \/ historyPage[s] = 1
           \/ (historyPage[s] - 1) * HistoryPageSize < Len(transactions[s])

\* C25: in a single session, whenever no handler is in flight and a current
\* customer is set, currentCustomer.total_points equals the balance the store
\* holds for that customer, also after a store call that failed.
C25_CachedBalanceIsStored ==
    \A s \in sessions :
        (pc[s] = "idle" /\ currentCustomer[s] # NoCustomer)
           => currentCustomer[s].total_points
                  = customersTbl[currentCustomer[s].id].total_points

\* C26: with two sessions working on one customer and every store call
\* answered (so that every accrual and redemption that was started reports
\* success and has its transaction), for every customer the sum of
\* points_changed over its transactions is never negative, and once no
\* handler is in flight the stored balance equals that sum.
C26_TwoSessionsLoseNothing ==
    \A i \in IdsOf(customersTbl) :
        /\ SumDeltas(transactionsTbl, i) >= 0
        /\ (\A s \in sessions : pc[s] = "idle")
               => customersTbl[i].total_points = SumDeltas(transactionsTbl, i)

\* the three outcomes of a search that session s has on its screen
OutcomesShown(s) ==
    (IF currentCustomer[s] # NoCustomer THEN {"customer"} ELSE {})
        \cup (IF showAddForm[s] THEN {"form"} ELSE {})
        \cup (IF Len(nameResults[s]) > 1 THEN {"list"} ELSE {})

\* C27: in every state of the session at most one of these holds: a current
\* customer is set, the add-customer form is shown, the list of name matches
\* is shown.
C27_OutcomesExclusive ==
    \A s \in sessions : Cardinality(OutcomesShown(s)) <= 1

\* C27 witness: after a customer has bought and redeemed, a search by name
\* has found two customers: the list is shown, and nothing else
C27_Witness ==
    \E s \in sessions :
        /\ pc[s] = "idle"
        /\ Len(transactionsTbl) = 2
        /\ transactionsTbl[2].type = "redeem"
        /\ OutcomesShown(s) = {"list"}

====
